---- MODULE Spec2Model ----
(***************************************************************************)
(* A model of the gravitational N-body integrator of n-body-modelling-2D.py *)
(* (load_body, set_initial, n_body_func, calc_orbits).                      *)
(*                                                                          *)
(* Numbers.  Coordinates, velocities and masses are integers.  A time is a  *)
(* rational kept as a numerator over the common denominator Div(dt) of the  *)
(* output grid.  An acceleration is kept as the exact symbolic sum the code *)
(* accumulates: a sequence of terms [coef, rsq, pow], one per "+=", where a *)
(* term stands for coef * (rsq ** 0.5) ** pow.  A term with rsq = 0 is the  *)
(* non-finite value numpy produces for 0 * 0.0 ** (-3).                     *)
(*                                                                          *)
(* Arrays are 1-based sequences; At(a, k) reads the code's 0-based index k. *)
(***************************************************************************)
EXTENDS Integers, Sequences, FiniteSets, TLC

VARIABLES
    pc,             \* position of the program
    config,         \* the parsed config: a list of dicts
    bodies,         \* list of Body objects
    t0, t1, dt,     \* the arguments of calc_orbits
    t,              \* calc_orbits: the output time grid (numerators over Div(dt))
    y,              \* calc_orbits: the solution array, one row per output time
    i,              \* calc_orbits: the loop index of "for i in range(1, len(t))"
    integrator,     \* the scipy ode object: [y, t, success]
    calls,          \* log of integrator.integrate calls, in call order
    pos_vel_array,  \* argument of the latest n_body_func evaluation
    dpos_vel_array  \* result of the latest n_body_func evaluation

vars == <<pc, config, bodies, t0, t1, dt, t, y, i, integrator, calls,
          pos_vel_array, dpos_vel_array>>

---------------------------------------------------------------------------
(* Bounds of the model *)

MaxBodies == 2

MaxSamples == 3

MaxTime == 2

(* Value sets the inputs are drawn from *)
Coords == {0, 1}

Masses == {1, 2}

StartTimes == {0, 1}

---------------------------------------------------------------------------
(* Arrays *)

At(a, k) == a[k + 1]

Zeros(n) == [k \in 1..n |-> 0]

RECURSIVE Concat(_)
Concat(ss) == IF ss = <<>> THEN <<>> ELSE Head(ss) \o Concat(Tail(ss))

(* a[start::4] = b[from::4] for arrays of equal length *)
SliceAssign(a, start, b, from) ==
    [k \in 1..Len(a) |->
        IF (k - 1) % 4 = start THEN At(b, (k - 1) - start + from) ELSE a[k]]

---------------------------------------------------------------------------
(* class Body and the config loader *)

Body(x, vx, y_, vy, mass, name) ==
    [x |-> x, y |-> y_, vx |-> vx, vy |-> vy, mass |-> mass, name |-> name]

required_keys == <<"x", "y", "vx", "vy", "mass", "name">>

HasRequiredKeys(b) == \A k \in 1..Len(required_keys) : required_keys[k] \in DOMAIN b

load_body(b) == Body(b["x"], b["y"], b["vx"], b["vy"], b["mass"], b["name"])

set_initial_values_xy_first(body) == <<body.x, body.y, body.vx, body.vy>>

set_initial_values(body) == <<body.x, body.vx, body.y, body.vy>>

set_initial(bs) == Concat([k \in 1..Len(bs) |-> set_initial_values(bs[k])])

---------------------------------------------------------------------------
(* n_body_func *)

G == 1

RPower == -3

Term(coef, rsq) == [coef |-> coef, rsq |-> rsq, pow |-> RPower]

ZeroSum == <<>>

Other(j, bs) == bs[j + 1]

PairTerms(ib, j, pv, bs) ==
    LET x_pos_body       == At(pv, ib * 4)
        y_pos_body       == At(pv, ib * 4 + 2)
        x_pos_other_body == At(pv, j * 4)
        y_pos_other_body == At(pv, j * 4 + 2)
        mass_other_body  == Other(j, bs).mass
        rsq == (x_pos_body - x_pos_other_body) * (x_pos_body - x_pos_other_body)
             + (y_pos_body - y_pos_other_body) * (y_pos_body - y_pos_other_body)
    IN  <<Term((-G) * mass_other_body * (x_pos_body - x_pos_other_body), rsq),
          Term((-G) * mass_other_body * (y_pos_body - y_pos_other_body), rsq)>>

InteractsWithSelf(ib, j) == TRUE

Interacts(ib, j) == ib # j

RECURSIVE InnerLoop(_, _, _, _, _)
InnerLoop(ib, j, pv, bs, acc) ==
    IF j >= Len(bs) THEN acc
    ELSE IF Interacts(ib, j)
         THEN LET term == PairTerms(ib, j, pv, bs)
              IN  InnerLoop(ib, j + 1, pv, bs,
                            <<Append(acc[1], term[1]), Append(acc[2], term[2])>>)
         ELSE InnerLoop(ib, j + 1, pv, bs, acc)

RECURSIVE OuterLoop(_, _, _, _)
OuterLoop(ib, pv, bs, d) ==
    IF ib >= Len(bs) THEN d
    ELSE LET acc == InnerLoop(ib, 0, pv, bs, <<ZeroSum, ZeroSum>>)
         IN  OuterLoop(ib + 1, pv, bs,
                       [d EXCEPT ![ib * 4 + 1 + 1] = acc[1],
                                 ![ib * 4 + 3 + 1] = acc[2]])

VelocitySlicesCrossed(d, pv) == SliceAssign(SliceAssign(d, 0, pv, 3), 2, pv, 1)

VelocitySlices(d, pv) == SliceAssign(SliceAssign(d, 0, pv, 1), 2, pv, 3)

n_body_func(time, pv, bs) ==
    OuterLoop(0, pv, bs, VelocitySlices(Zeros(4 * Len(bs)), pv))

(* A sum is finite unless one of its terms divides by a zero distance. *)
FiniteSum(s) == \A k \in 1..Len(s) : s[k].rsq # 0

FiniteDerivative(d) ==
    \A k \in 1..Len(d) : ((k - 1) % 2 = 1) => FiniteSum(d[k])

---------------------------------------------------------------------------
(* numpy.linspace(start, stop, num), endpoint included.  The values are     *)
(* numerators over Div(num): start + k * (stop - start) / div.              *)

Div(num) == IF num - 1 > 0 THEN num - 1 ELSE 1

GridValue(start, stop, num, k) ==
    LET div   == num - 1
        delta == stop - start
    IN  IF div > 0 THEN start * Div(num) + k * delta
                   ELSE start * Div(num) + k * delta * Div(num)

linspace_without_endpoint(start, stop, num) ==
    [k \in 1..(num - 1) |-> GridValue(start, stop, num, k - 1)]

linspace(start, stop, num) ==
    LET ys == [k \in 1..num |-> GridValue(start, stop, num, k - 1)]
    IN  IF num > 1 THEN [ys EXCEPT ![num] = stop * Div(num)] ELSE ys

---------------------------------------------------------------------------
(* scipy.integrate.ode with the dop853 stepper, as calc_orbits uses it.     *)
(* The numerical result of a successful call is abstracted to a free drift  *)
(* of every body by its velocity; what the model keeps exactly is where the *)
(* stepper is (its state and time), whether the call succeeded, and that a  *)
(* call returns the stepper's state whether or not it succeeded.            *)

Advance(state) ==
    [k \in 1..Len(state) |->
        IF (k - 1) % 2 = 0 THEN state[k] + state[k + 1] ELSE state[k]]

set_initial_value(initial, time) == [y |-> initial, t |-> time, success |-> TRUE]

Stalled(ode) == [y |-> ode.y, t |-> ode.t, success |-> FALSE]

(* The outcomes of integrator.integrate(target): the stepper evaluates the  *)
(* right-hand side at its current state; a non-finite derivative, a step    *)
(* size underflow or an exhausted step budget end the call unsuccessfully   *)
(* with a warning, the stepper left where its last accepted step put it.    *)
integrate(ode, target, bs) ==
    IF ~FiniteDerivative(n_body_func(ode.t, ode.y, bs)) THEN {Stalled(ode)}
    ELSE IF target = ode.t THEN {[y |-> ode.y, t |-> target, success |-> TRUE]}
    ELSE {[y |-> Advance(ode.y), t |-> target, success |-> TRUE], Stalled(ode)}

---------------------------------------------------------------------------
(* Inputs *)

ConfigEntry(x, y_, vx, vy, mass) ==
    [x |-> x, y |-> y_, vx |-> vx, vy |-> vy, mass |-> mass, name |-> 0]

Without(b, key) == [k \in (DOMAIN b) \ {key} |-> b[k]]

ConfigEntries ==
    { ConfigEntry(0, 1, 0, 2, 1),
      ConfigEntry(1, 0, 2, 0, 2),
      ConfigEntry(5, 7, 3, 4, 3),
      Without(ConfigEntry(0, 0, 0, 0, 1), "mass") }

Named(entries) ==
    [k \in 1..Len(entries) |->
        IF "name" \in DOMAIN entries[k] THEN [entries[k] EXCEPT !["name"] = k]
                                        ELSE entries[k]]

Configs ==
    UNION { { Named(c) : c \in [1..n -> ConfigEntries] } : n \in 0..MaxBodies }

NoIntegrator == [y |-> <<>>, t |-> 0, success |-> TRUE]

---------------------------------------------------------------------------
(* The program: __main__ loads the bodies and calls calc_orbits *)

Init ==
    /\ pc = "main"
    /\ config \in Configs
    /\ bodies = <<>>
    /\ t0 \in StartTimes
    /\ t1 \in 0..MaxTime
    /\ dt \in 0..MaxSamples
    /\ t = <<>>
    /\ y = <<>>
    /\ i = 0
    /\ integrator = NoIntegrator
    /\ calls = <<>>
    /\ pos_vel_array = <<>>
    /\ dpos_vel_array = <<>>

load_bodies ==
    /\ pc = "main"
    /\ IF \A k \in 1..Len(config) : HasRequiredKeys(config[k])
       THEN /\ bodies' = [k \in 1..Len(config) |-> load_body(config[k])]
            /\ pc' = "calc"
       ELSE /\ bodies' = bodies
            /\ pc' = "load_failed"
    /\ UNCHANGED <<config, t0, t1, dt, t, y, i, integrator, calls,
                   pos_vel_array, dpos_vel_array>>

RecordRowWithTime(ode) == <<ode.t>> \o ode.y

RecordRow(ode) == ode.y

calc_orbits_setup ==
    /\ pc = "calc"
    /\ LET initial == set_initial(bodies)
           grid    == linspace(t0, t1, dt)
           sol     == [r \in 1..Len(grid) |-> Zeros(Len(bodies) * 4)]
       IN  /\ t' = grid
           /\ IF Len(grid) = 0
              THEN /\ y' = sol
                   /\ integrator' = integrator
                   /\ pc' = "calc_failed"
              ELSE /\ y' = [sol EXCEPT ![1] = initial]
                   /\ integrator' = set_initial_value(initial, t0 * Div(dt))
                   /\ pc' = "loop"
    /\ i' = 1
    /\ UNCHANGED <<config, bodies, t0, t1, dt, calls, pos_vel_array, dpos_vel_array>>

calc_orbits_step ==
    /\ pc = "loop"
    /\ i < Len(t)
    /\ \E ode \in integrate(integrator, At(t, i), bodies) :
         /\ integrator' = ode
         /\ y' = [y EXCEPT ![i + 1] = RecordRow(ode)]
         /\ calls' = Append(calls, [index |-> i, target |-> At(t, i),
                                    from_t |-> integrator.t, from_y |-> integrator.y,
                                    ok |-> ode.success, to_t |-> ode.t,
                                    result |-> ode.y])
    /\ pos_vel_array' = integrator.y
    /\ dpos_vel_array' = n_body_func(integrator.t, integrator.y, bodies)
    /\ i' = i + 1
    /\ UNCHANGED <<pc, config, bodies, t0, t1, dt, t>>

calc_orbits_return ==
    /\ pc = "loop"
    /\ i >= Len(t)
    /\ pc' = "returned"
    /\ UNCHANGED <<config, bodies, t0, t1, dt, t, y, i, integrator, calls,
                   pos_vel_array, dpos_vel_array>>

Next == load_bodies \/ calc_orbits_setup \/ calc_orbits_step \/ calc_orbits_return

Spec == Init /\ [][Next]_vars

---------------------------------------------------------------------------
(* n_body_func on its own: any masses, any state vector of length 4n *)

MassLists == UNION { [1..n -> Masses] : n \in 0..MaxBodies }

InitF ==
    /\ pc = "f_call"
    /\ config = <<>>
    /\ \E ms \in MassLists : bodies = [k \in 1..Len(ms) |-> Body(0, 0, 0, 0, ms[k], k)]
    /\ pos_vel_array \in [1..(4 * Len(bodies)) -> Coords]
    /\ dpos_vel_array = <<>>
    /\ t0 = 0 /\ t1 = 0 /\ dt = 0
    /\ t = <<>>
    /\ y = <<>>
    /\ i = 0
    /\ integrator = NoIntegrator
    /\ calls = <<>>

eval_n_body_func ==
    /\ pc = "f_call"
    /\ dpos_vel_array' = n_body_func(t0, pos_vel_array, bodies)
    /\ pc' = "f_done"
    /\ UNCHANGED <<config, bodies, t0, t1, dt, t, y, i, integrator, calls, pos_vel_array>>

NextF == eval_n_body_func

SpecF == InitF /\ [][NextF]_vars

---------------------------------------------------------------------------
(* Properties *)

NBodies == Len(bodies)

InCalcOrbits == pc \in {"loop", "returned"}

Coincident(bs) ==
    \E a, b \in 1..Len(bs) : a # b /\ bs[a].x = bs[b].x /\ bs[a].y = bs[b].y

(* C1: when two distinct bodies start at identical (x, y) coordinates,     *)
(* calc_orbits fails with an error and never returns a trajectory array;    *)
(* stated for the calls that reach the stepper, where n_body_func is        *)
(* evaluated on the coincident bodies.                                      *)
C1_CoincidentStartNeverReturns ==
    (Coincident(bodies) /\ calls # <<>>) => pc # "returned"

(* C2: when integrator.integrate(t[i]) ends unsuccessfully, calc_orbits     *)
(* surfaces an integration failure: the failed call is the last one, its    *)
(* result is not recorded as row i and no trajectory is returned (stated   *)
(* for a system of at least one body).                                      *)
C2_StepFailureSurfaced ==
    \A k \in 1..Len(calls) :
        (~calls[k].ok /\ NBodies >= 1) =>
            /\ pc = "calc_failed"
            /\ k = Len(calls)
            /\ y[calls[k].index + 1] = Zeros(4 * NBodies)

(* C3: row 0 of the trajectory is the initial condition, recorded before    *)
(* any stepper call: columns 4b, 4b+1, 4b+2, 4b+3 are body b's x, vx, y, vy. *)
C3_InitialRow ==
    InCalcOrbits =>
        /\ Len(y[1]) = 4 * NBodies
        /\ \A b \in 0..(NBodies - 1) :
              /\ At(y[1], 4 * b)     = bodies[b + 1].x
              /\ At(y[1], 4 * b + 1) = bodies[b + 1].vx
              /\ At(y[1], 4 * b + 2) = bodies[b + 1].y
              /\ At(y[1], 4 * b + 3) = bodies[b + 1].vy
        /\ (i = 1 => calls = <<>>)

C3_Witness ==
    /\ pc = "returned"
    /\ NBodies = 2
    /\ Len(calls) >= 2
    /\ bodies[1].vx # bodies[1].y
    /\ y[2] # y[1]

EvenlySpaced(grid) ==
    \A k, l \in 1..(Len(grid) - 1) : grid[k + 1] - grid[k] = grid[l + 1] - grid[l]

(* C4 as stated: for every t0, t1 and sample count N calc_orbits returns a  *)
(* trajectory with one row per output time, the output times being N evenly *)
(* spaced values whose first is t0 and whose last is t1.                    *)
C4_GridSpansBothEndpoints ==
    /\ pc # "calc_failed"
    /\ (pc = "returned" =>
          /\ Len(t) = dt
          /\ Len(y) = Len(t)
          /\ t[1] = t0 * Div(dt)
          /\ t[Len(t)] = t1 * Div(dt)
          /\ EvenlySpaced(t))

(* C4 amended: for N >= 1 the returned trajectory has exactly N rows, one   *)
(* per output time; the output times are N evenly spaced values whose first *)
(* is t0 and, when N >= 2, whose last is t1 (for N = 1 the only output time *)
(* is t0); for N = 0 no trajectory is returned.                             *)
C4_GridAmended ==
    pc = "returned" =>
          /\ dt >= 1
          /\ Len(t) = dt
          /\ Len(y) = Len(t)
          /\ t[1] = t0 * Div(dt)
          /\ (dt >= 2 => t[Len(t)] = t1 * Div(dt))
          /\ (dt = 1 => t = <<t0>>)
          /\ \A k \in 1..(Len(t) - 1) : t[k + 1] - t[k] = t1 - t0

C4_Witness ==
    /\ pc = "returned"
    /\ dt = MaxSamples
    /\ t1 > t0
    /\ Len(y) = MaxSamples

(* C5 as stated: every row of the returned trajectory carries the sample's  *)
(* time in a time column besides the 4n state columns: row k has 4n + 1     *)
(* entries and its time entry is the k-th output time.                      *)
C5_RowsCarryTime ==
    pc = "returned" =>
        \A k \in 1..Len(y) :
            /\ Len(y[k]) = 4 * NBodies + 1
            /\ (y[k][1] = t[k] \/ y[k][4 * NBodies + 1] = t[k])

(* C5 amended: every row of the returned trajectory is a State Vector only: *)
(* row k has exactly 4n entries, the state recorded for the k-th output     *)
(* time, and no time column; there is one row per output time.              *)
C5_RowsAreStateVectors ==
    pc = "returned" =>
        /\ Len(y) = Len(t)
        /\ y[1] = set_initial(bodies)
        /\ \A k \in 1..Len(y) : Len(y[k]) = 4 * NBodies
        /\ \A k \in 2..Len(y) : y[k] = calls[k - 1].result

C5_Witness ==
    /\ pc = "returned"
    /\ NBodies >= 1
    /\ Len(y) >= 2

(* C6: dt is the time step: row k of the returned array is the state        *)
(* requested for time t0 + k*dt, consecutive rows being exactly dt apart   *)
(* (stated for t0 < t1 and at least one body).                              *)
C6_DtIsTimeStep ==
    (pc = "returned" /\ t0 < t1 /\ NBodies >= 1) =>
        \A k \in 0..(Len(y) - 1) : At(t, k) = (t0 + k * dt) * Div(dt)

(* C7: the stepper is called exactly once per output time after the first,  *)
(* in increasing index order; call i starts from the stepper state and time  *)
(* reached at t[i-1] and advances to t[i], and row i is the stepper's state  *)
(* at time t[i] (stated for a system of at least one body).                 *)
C7_OneStepPerOutputTime ==
    NBodies >= 1 =>
        /\ \A k \in 1..Len(calls) :
              /\ calls[k].index = k
              /\ calls[k].target = At(t, k)
              /\ calls[k].from_t = At(t, k - 1)
              /\ calls[k].from_y = At(y, k - 1)
              /\ calls[k].to_t = At(t, k)
              /\ At(y, k) = calls[k].result
        /\ (pc = "returned" => Len(calls) = Len(t) - 1)

(* C8: n_body_func returns a derivative vector of length 4n in which, for   *)
(* every body b, component 4b is input component 4b+1 and component 4b+2 is *)
(* input component 4b+3.                                                    *)
C8_PositionDerivativeIsVelocity ==
    pc = "f_done" =>
        /\ Len(dpos_vel_array) = 4 * NBodies
        /\ Len(dpos_vel_array) = Len(pos_vel_array)
        /\ \A b \in 0..(NBodies - 1) :
              /\ At(dpos_vel_array, 4 * b)     = At(pos_vel_array, 4 * b + 1)
              /\ At(dpos_vel_array, 4 * b + 2) = At(pos_vel_array, 4 * b + 3)

C8_Witness ==
    /\ pc = "f_done"
    /\ NBodies = 2
    /\ At(pos_vel_array, 1) # At(pos_vel_array, 3)
    /\ At(pos_vel_array, 5) # At(pos_vel_array, 1)

(* The j-th body other than b, in list order *)
OtherThan(b, k) == IF k - 1 < b THEN k - 1 ELSE k

Separation2(b, j) ==
    (At(pos_vel_array, 4 * b) - At(pos_vel_array, 4 * j))
        * (At(pos_vel_array, 4 * b) - At(pos_vel_array, 4 * j))
  + (At(pos_vel_array, 4 * b + 2) - At(pos_vel_array, 4 * j + 2))
        * (At(pos_vel_array, 4 * b + 2) - At(pos_vel_array, 4 * j + 2))

(* -G * mass_j * (pos_b - pos_j) / |pos_b - pos_j|^3 along one axis *)
Pull(b, j, axis) ==
    [coef |-> 0 - bodies[j + 1].mass
                    * (At(pos_vel_array, 4 * b + axis) - At(pos_vel_array, 4 * j + axis)),
     rsq  |-> Separation2(b, j),
     pow  |-> 0 - 3]

(* C9: the acceleration written to components 4b+1 and 4b+3 is the sum of   *)
(* exactly one term -G*mass_j*(pos_b - pos_j)/|pos_b - pos_j|^3 per body    *)
(* j # b and no term for j = b; with zero or one body every sum is empty,   *)
(* every acceleration is 0 and the evaluation returns.                      *)
C9_PairwiseAcceleration ==
    pc = "f_done" =>
        /\ Len(dpos_vel_array) = 4 * NBodies
        /\ \A b \in 0..(NBodies - 1) :
              /\ Len(At(dpos_vel_array, 4 * b + 1)) = NBodies - 1
              /\ Len(At(dpos_vel_array, 4 * b + 3)) = NBodies - 1
              /\ \A k \in 1..(NBodies - 1) :
                    /\ At(dpos_vel_array, 4 * b + 1)[k] = Pull(b, OtherThan(b, k), 0)
                    /\ At(dpos_vel_array, 4 * b + 3)[k] = Pull(b, OtherThan(b, k), 2)
              /\ (NBodies <= 1 =>
                    /\ At(dpos_vel_array, 4 * b + 1) = ZeroSum
                    /\ At(dpos_vel_array, 4 * b + 3) = ZeroSum)

C9_Witness ==
    /\ pc = "f_done"
    /\ NBodies = 2
    /\ bodies[1].mass # bodies[2].mass
    /\ Separation2(0, 1) = 2
    /\ At(dpos_vel_array, 1) # At(dpos_vel_array, 5)

(* C10: load_body sets every field of the Body from the same key of the     *)
(* config dict: x, y, vx, vy, mass and name.                                 *)
C10_LoadBodyFieldByField ==
    pc \in {"calc", "loop", "returned", "calc_failed"} =>
        \A k \in 1..Len(config) :
            /\ bodies[k].x    = config[k]["x"]
            /\ bodies[k].y    = config[k]["y"]
            /\ bodies[k].vx   = config[k]["vx"]
            /\ bodies[k].vy   = config[k]["vy"]
            /\ bodies[k].mass = config[k]["mass"]
            /\ bodies[k].name = config[k]["name"]

====
